---- MODULE Spec2Model ----
(***************************************************************************)
(* Model of the Maya voice companion (src/App.tsx): the session            *)
(* controller, the transcript/turn state, the emotion classifier and the   *)
(* playback scheduler of the App component.                                *)
(*                                                                         *)
(* Every handler of the component is one action.  A handler that awaits    *)
(* (startSession, the audio branch of onmessage) is one action per         *)
(* segment between awaits.  React state is committed at the end of each    *)
(* handler (automatic batching), and the effect on currentOutput           *)
(* (lines 83-90) runs with that commit, so it is part of every action that *)
(* changes currentOutput.  Texts are strings; timestamps (Date.now()) and  *)
(* the visualiser's volume are not modelled.                               *)
(***************************************************************************)
EXTENDS Integers, Sequences, FiniteSets, TLC

VARIABLES
    status,         \* useState ConnectionStatus (line 26)
    messages,       \* useState Message[] (line 27), entries [role, text]
    currentInput,   \* useState (line 28)
    currentOutput,  \* useState (line 29)
    textValue,      \* useState (line 30)
    isSpeaking,     \* useState (line 32)
    emotion,        \* useState (line 33)
    sessionRef,     \* sessionRef.current (line 43): 0 is null, else a session id
    nextStartTime,  \* nextStartTimeRef.current (line 44)
    sources,        \* sourcesRef.current (line 45): [arr, playEnd] per source
    nSessions,      \* number of startSession calls so far (session ids 1..nSessions)
    chan,           \* per session: state of its startSession call and its channel
    closure,        \* per session: currentInput/currentOutput captured by its callbacks
    decoding,       \* onmessage calls suspended at await decodeAudioData (line 171)
    lastBuf,        \* the buffer of the latest source.start (line 186), or NoBuf
    stoppedEnds,    \* 'ended' events still to be dispatched for force-stopped sources
    decayTimers,    \* pending setTimeout callbacks of line 163
    outputClock,    \* output.currentTime
    nAudio,         \* audio fragments received so far
    nIn,            \* input fragments appended to currentInput since it was last cleared
    nSends,         \* text turns sent so far
    nOut,           \* output fragments appended to currentOutput since it was last cleared
    resetSince,     \* what reset the cursor since the last source.start, if anything
    stopsInRow,     \* number of stopSession calls made directly one after another
    traffic,        \* what this run exercises: transcript messages, audio messages or capture
    capture,        \* sessions whose onopen connected a scriptProcessor (lines 123-144)
    lastFrame,      \* the latest onaudioprocess call: its pipeline, sample and recipient
    lastTurn,       \* the latest sendClientContent call (line 237), or NoTurn
    lastHandled     \* whether the latest handler ignored a message or handled `interrupted`

vars == << status, messages, currentInput, currentOutput, textValue, isSpeaking,
           emotion, sessionRef, nextStartTime, sources, nSessions, chan, closure,
           decoding, lastBuf, stoppedEnds, decayTimers, outputClock, nAudio, nIn,
           nSends, nOut, resetSince, stopsInRow, traffic, capture, lastFrame,
           lastTurn, lastHandled >>

----------------------------------------------------------------------------
(* Bounds of the model *)

MaxSessions == 2
MaxFrags == 2
MaxLog == 2
MaxBuffers == 2
MaxDur == 1
MaxClock == 2
MaxTimers == 2
MaxSends == 1
MaxFrames == 1

Sessions == 1..MaxSessions
Durations == 1..MaxDur

InFrags == {"hi "}
OutFrags == {"I understand, that sounds difficult", "Mhm "}
TextInputs == {"", " ", "yo"}

\* Texts given to the classifier on its own: up to two of these words.
ClassifyWords == {"Wow", "tough", "same", "happy", "unhappy", "sorry", "relax",
                  "why", "really?", "Mhm"}
ClassifyTexts ==
    {""} \cup ClassifyWords \cup {a \o " " \o b : a \in ClassifyWords, b \in ClassifyWords}

\* Every value currentOutput takes: up to MaxFrags output fragments.
RECURSIVE Concats(_, _)
Concats(frags, n) ==
    IF n = 0 THEN {""}
    ELSE LET shorter == Concats(frags, n - 1)
         IN shorter \cup {t \o f : t \in shorter, f \in frags}
OutTexts == Concats(OutFrags, MaxFrags)

Max(a, b) == IF a >= b THEN a ELSE b
Min(a, b) == IF a <= b THEN a ELSE b

----------------------------------------------------------------------------
(* Emotion classifier: detectEmotion, lines 48-81 *)

UpperChars == "ABCDEFGHIJKLMNOPQRSTUVWXYZ"
LowerChars == "abcdefghijklmnopqrstuvwxyz"
Digits == "0123456789"

CharAt(s, k) == SubSeq(s, k, k)

\* One character of String.prototype.toLowerCase (ASCII range).
LowerChar(c) ==
    IF \E i \in 1..Len(UpperChars) : CharAt(UpperChars, i) = c
    THEN CharAt(LowerChars, CHOOSE i \in 1..Len(UpperChars) : CharAt(UpperChars, i) = c)
    ELSE c

RECURSIVE toLowerCase(_)
toLowerCase(s) ==
    IF s = "" THEN "" ELSE LowerChar(CharAt(s, 1)) \o toLowerCase(Tail(s))

\* The regular expression class \w.
WordChars ==
    {CharAt(LowerChars, i) : i \in 1..Len(LowerChars)}
        \cup {CharAt(UpperChars, i) : i \in 1..Len(UpperChars)}
        \cup {CharAt(Digits, i) : i \in 1..Len(Digits)} \cup {"_"}

IsWordAt(s, k) == k >= 1 /\ k <= Len(s) /\ CharAt(s, k) \in WordChars

\* The assertion \b between positions k and k+1 of s (k = 0: before the text).
WordBoundary(s, k) == IsWordAt(s, k) # IsWordAt(s, k + 1)

\* /\b(kw1|kw2|...)\b/.test(s)
RegexTest(kws, s) ==
    \E kw \in kws : \E i \in 1..(Len(s) - Len(kw) + 1) :
        /\ SubSeq(s, i, i + Len(kw) - 1) = kw
        /\ WordBoundary(s, i - 1)
        /\ WordBoundary(s, i + Len(kw) - 1)

SurpriseWords == {"wow", "whoa", "surprise", "unbelievable", "sudden", "unexpected",
                  "really?", "no way", "incredible"}
FrustrationWords == {"frustrating", "annoying", "bother", "difficult", "hard", "tough",
                     "ugh", "sigh", "annoyed"}
BoredomWords == {"bored", "repetitive", "same", "dull", "slow", "nothing", "empty",
                 "routine", "yawn"}
JoyWords == {"happy", "excited", "great", "amazing", "wonderful", "love", "yay", "joy",
             "fantastic", "brilliant", "glad", "delighted"}
EmpathyWords == {"sorry", "sad", "understand", "there", "care", "heart", "empathy",
                 "support", "feel", "lonely", "hurt", "pain"}
CalmWords == {"relax", "calm", "breathe", "peace", "quiet", "gentle", "soft", "rest",
              "still", "okay", "fine"}
CuriosityWords == {"why", "how", "curious", "interesting", "wonder", "think", "thought",
                   "idea", "question", "analyze", "learn"}

Emotions == {"joy", "empathy", "calm", "curiosity", "frustration", "surprise",
             "boredom", "default"}

detectEmotionJoyAfterCalm(text) ==
    LET lower == toLowerCase(text) IN
    IF RegexTest(SurpriseWords, lower) THEN "surprise"
    ELSE IF RegexTest(FrustrationWords, lower) THEN "frustration"
    ELSE IF RegexTest(BoredomWords, lower) THEN "boredom"
    ELSE IF RegexTest(CalmWords, lower) THEN "calm"
    ELSE IF RegexTest(EmpathyWords, lower) THEN "empathy"
    ELSE IF RegexTest(JoyWords, lower) THEN "joy"
    ELSE IF RegexTest(CuriosityWords, lower) THEN "curiosity"
    ELSE "default"

detectEmotion(text) ==
    LET lower == toLowerCase(text) IN
    IF RegexTest(SurpriseWords, lower) THEN "surprise"
    ELSE IF RegexTest(FrustrationWords, lower) THEN "frustration"
    ELSE IF RegexTest(BoredomWords, lower) THEN "boredom"
    ELSE IF RegexTest(JoyWords, lower) THEN "joy"
    ELSE IF RegexTest(EmpathyWords, lower) THEN "empathy"
    ELSE IF RegexTest(CalmWords, lower) THEN "calm"
    ELSE IF RegexTest(CuriosityWords, lower) THEN "curiosity"
    ELSE "default"

\* detectEmotion on the texts of the model, evaluated once.
Detected == [t \in OutTexts \cup ClassifyTexts |-> detectEmotion(t)]

EmotionEffectOverwrites(old, new, cur) ==
    IF new # old /\ new # "" THEN Detected[new] ELSE cur

\* The effect of lines 83-90, run when currentOutput changed from old to new.
EmotionEffect(old, new, cur) ==
    IF new # old /\ new # ""
    THEN LET newEmotion == Detected[new] IN
         IF newEmotion # "default" THEN newEmotion ELSE cur
    ELSE cur

----------------------------------------------------------------------------
(* State after the first render *)

NoReset == "none"
NoBuf == [n |-> 0, arr |-> 0, when |-> 0, dur |-> 0, after |-> NoReset]
NoFrame == [n |-> 0, pipe |-> 0, sample |-> 0, int16 |-> 0, to |-> 0]
NoTurn == [text |-> "", active |-> 0, logLen |-> 0]

Init ==
    /\ status = "IDLE"
    /\ messages = << >>
    /\ currentInput = ""
    /\ currentOutput = ""
    /\ textValue = ""
    /\ isSpeaking = FALSE
    /\ emotion = "default"
    /\ sessionRef = 0
    /\ nextStartTime = 0
    /\ sources = {}
    /\ nSessions = 0
    /\ chan = [s \in Sessions |-> "none"]
    /\ closure = [s \in Sessions |-> [input |-> "", output |-> ""]]
    /\ decoding = << >>
    /\ lastBuf = NoBuf
    /\ stoppedEnds = 0
    /\ decayTimers = 0
    /\ outputClock = 0
    /\ nAudio = 0
    /\ nIn = 0
    /\ nSends = 0
    /\ nOut = 0
    /\ resetSince = NoReset
    /\ stopsInRow = 0
    /\ traffic \in {"text", "audio", "capture"}
    /\ capture = {}
    /\ lastFrame = NoFrame
    /\ lastTurn = NoTurn
    /\ lastHandled = "other"

----------------------------------------------------------------------------
(* Session controller: startSession (lines 108-225) and the channel callbacks *)

\* Click on "Start Session": the button is rendered while status is not
\* CONNECTED (line 322) and disabled while CONNECTING (line 325).  The call
\* runs to its first await; the callbacks it will register close over the
\* currentInput and currentOutput of the render that created this startSession.
StartSession ==
    /\ status \in {"IDLE", "ERROR"}
    /\ nSessions < MaxSessions
    /\ nSessions' = nSessions + 1
    /\ status' = "CONNECTING"
    /\ chan' = [chan EXCEPT ![nSessions + 1] = "connecting"]
    /\ closure' = [closure EXCEPT ![nSessions + 1] =
                      [input |-> currentInput, output |-> currentOutput]]
    /\ stopsInRow' = 0
    /\ lastHandled' = "other"
    /\ traffic' = traffic
    /\ UNCHANGED << capture, lastFrame, lastTurn >>
    /\ UNCHANGED << messages, currentInput, currentOutput, textValue, isSpeaking,
                    emotion, sessionRef, nextStartTime, sources, decoding, lastBuf,
                    stoppedEnds, decayTimers, outputClock, nAudio, nIn, nSends, nOut,
                    resetSince >>

\* getUserMedia or ai.live.connect rejects: the catch of lines 221-224.
StartFailed(s) ==
    /\ chan[s] = "connecting"
    /\ chan' = [chan EXCEPT ![s] = "closed"]
    /\ status' = "ERROR"
    /\ stopsInRow' = 0
    /\ lastHandled' = "other"
    /\ traffic' = traffic
    /\ UNCHANGED << capture, lastFrame, lastTurn >>
    /\ UNCHANGED << messages, currentInput, currentOutput, textValue, isSpeaking,
                    emotion, sessionRef, nextStartTime, sources, nSessions, closure,
                    decoding, lastBuf, stoppedEnds, decayTimers, outputClock, nAudio,
                    nIn, nSends, nOut, resetSince >>

\* The channel opens: onopen (lines 119-145) sets CONNECTED, connect() then
\* resolves in the same task and line 220 stores the session.
OnOpen(s) ==
    /\ chan[s] = "connecting"
    /\ chan' = [chan EXCEPT ![s] = "open"]
    /\ status' = "CONNECTED"
    /\ sessionRef' = s
    /\ capture' = capture \cup {s}
    /\ stopsInRow' = 0
    /\ lastHandled' = "other"
    /\ traffic' = traffic
    /\ UNCHANGED << lastFrame, lastTurn >>
    /\ UNCHANGED << messages, currentInput, currentOutput, textValue, isSpeaking,
                    emotion, nextStartTime, sources, nSessions, closure, decoding,
                    lastBuf, stoppedEnds, decayTimers, outputClock, nAudio, nIn, nSends, nOut,
                    resetSince >>

\* onerror, lines 200-203: the channel failed; its close event is still to come.
OnError(s) ==
    /\ chan[s] \in {"connecting", "open"}
    /\ chan' = [chan EXCEPT ![s] = "failed"]
    /\ status' = "ERROR"
    /\ stopsInRow' = 0
    /\ lastHandled' = "other"
    /\ traffic' = traffic
    /\ UNCHANGED << capture, lastFrame, lastTurn >>
    /\ UNCHANGED << messages, currentInput, currentOutput, textValue, isSpeaking,
                    emotion, sessionRef, nextStartTime, sources, nSessions, closure,
                    decoding, lastBuf, stoppedEnds, decayTimers, outputClock, nAudio,
                    nIn, nSends, nOut, resetSince >>

\* onclose, lines 204-207: after a failure, after close() or closed by the peer.
OnClose(s) ==
    /\ chan[s] \in {"open", "closing", "failed"}
    /\ chan' = [chan EXCEPT ![s] = "closed"]
    /\ status' = "IDLE"
    /\ stopsInRow' = 0
    /\ lastHandled' = "other"
    /\ traffic' = traffic
    /\ UNCHANGED << capture, lastFrame, lastTurn >>
    /\ UNCHANGED << messages, currentInput, currentOutput, textValue, isSpeaking,
                    emotion, sessionRef, nextStartTime, sources, nSessions, closure,
                    decoding, lastBuf, stoppedEnds, decayTimers, outputClock, nAudio,
                    nIn, nSends, nOut, resetSince >>

\* sessionRef.current.close() on session s.
CloseChannel(c, s) == [c EXCEPT ![s] = IF c[s] = "open" THEN "closing" ELSE c[s]]

StopSessionKeepsStatus ==
    /\ chan' = IF sessionRef # 0 THEN CloseChannel(chan, sessionRef) ELSE chan
    /\ sessionRef' = 0
    /\ status' = status
    /\ isSpeaking' = FALSE
    /\ emotion' = "default"
    /\ stopsInRow' = Min(stopsInRow + 1, 2)
    /\ lastHandled' = "other"
    /\ traffic' = traffic
    /\ UNCHANGED << capture, lastFrame, lastTurn >>
    /\ UNCHANGED << messages, currentInput, currentOutput, textValue, nextStartTime,
                    sources, nSessions, closure, decoding, lastBuf, stoppedEnds,
                    decayTimers, outputClock, nAudio, nIn, nSends, nOut, resetSince >>

\* stopSession, lines 245-254.
StopSession ==
    /\ chan' = IF sessionRef # 0 THEN CloseChannel(chan, sessionRef) ELSE chan
    /\ sessionRef' = 0
    /\ status' = "IDLE"
    /\ isSpeaking' = FALSE
    /\ emotion' = "default"
    /\ stopsInRow' = Min(stopsInRow + 1, 2)
    /\ lastHandled' = "other"
    /\ traffic' = traffic
    /\ UNCHANGED << capture, lastFrame, lastTurn >>
    /\ UNCHANGED << messages, currentInput, currentOutput, textValue, nextStartTime,
                    sources, nSessions, closure, decoding, lastBuf, stoppedEnds,
                    decayTimers, outputClock, nAudio, nIn, nSends, nOut, resetSince >>

\* Click on "End Session": the button is rendered only while CONNECTED (line 322).
ClickStop ==
    /\ status = "CONNECTED"
    /\ StopSession

----------------------------------------------------------------------------
(* Inbound messages: onmessage, lines 146-199 *)

\* A LiveServerMessage, by the fields of serverContent the handler reads: "" is
\* an absent transcription, audio is the duration of the payload's buffer
\* (0: no payload).
Msgs ==
    [out : OutFrags \cup {""}, inp : InFrags \cup {""}, tc : BOOLEAN,
     audio : Durations \cup {0}, intr : BOOLEAN]

\* The state space is explored in three kinds of run: the inbound messages of
\* a run carry transcript fields (transcriptions, turn-complete) or playback
\* fields (audio payload, interrupted), or the run has no inbound messages and
\* the microphone delivers frames.  The handlers treat the three in separate
\* statements over separate state.
Carried(kind, m) ==
    IF kind = "text" THEN m.audio = 0 /\ ~m.intr
    ELSE IF kind = "audio" THEN m.out = "" /\ m.inp = "" /\ ~m.tc
    ELSE FALSE

\* The updater of setMessages, lines 154-159, with the handler's currentInput
\* and currentOutput.
FlushOverwrites(prev, input, output) ==
    (IF input # "" THEN << [role |-> "user", text |-> input] >> ELSE << >>)
        \o (IF output # "" THEN << [role |-> "model", text |-> output] >> ELSE << >>)

Flush(prev, input, output) ==
    LET withUser == IF input # "" THEN Append(prev, [role |-> "user", text |-> input])
                    ELSE prev
    IN IF output # "" THEN Append(withUser, [role |-> "model", text |-> output])
       ELSE withUser

\* Line 169.
StartAt(cursor, clock) == Max(cursor, clock)

\* Line 187.
AdvanceCursorForgetsDuration(cursor, duration) == cursor

AdvanceCursor(cursor, duration) == cursor + duration

\* Lines 196 and 234.
CursorAfterInterruptKept(cursor) == cursor

CursorAfterInterruptStalls(cursor) == cursor + 1

CursorAfterInterrupt(cursor) == 0

\* The statements of onmessage that message m runs: the conditions of lines
\* 147, 149, 153, 167 and 191.
HandlersRun(m) ==
    (IF m.out # "" THEN {"output-transcription"} ELSE {})
        \cup (IF m.out = "" /\ m.inp # "" THEN {"input-transcription"} ELSE {})
        \cup (IF m.tc THEN {"turn-complete"} ELSE {})
        \cup (IF m.audio # 0 THEN {"audio-fragment"} ELSE {})
        \cup (IF m.intr THEN {"interrupted"} ELSE {})

\* The first segment of onmessage for message m of session s: all of it when m
\* has no audio payload, up to await decodeAudioData (line 171) when it has.
OnMessage(s, m) ==
    /\ chan[s] = "open"
    /\ Carried(traffic, m)
    /\ m.out # "" => nOut < MaxFrags
    /\ (m.out = "" /\ m.inp # "") => nIn < MaxFrags
    /\ m.tc => /\ decayTimers < MaxTimers
               /\ Len(Flush(messages, closure[s].input, closure[s].output)) <= MaxLog
    /\ m.audio # 0 => nAudio < MaxBuffers
    /\ LET appendedOut == IF m.out # "" THEN currentOutput \o m.out ELSE currentOutput
           appendedIn == IF m.out = "" /\ m.inp # "" THEN currentInput \o m.inp
                         ELSE currentInput
       IN /\ currentOutput' = IF m.tc THEN "" ELSE appendedOut
          /\ currentInput' = IF m.tc THEN "" ELSE appendedIn
          /\ nOut' = IF m.tc THEN 0 ELSE IF m.out # "" THEN nOut + 1 ELSE nOut
          /\ nIn' = IF m.tc THEN 0
                    ELSE IF m.out = "" /\ m.inp # "" THEN nIn + 1 ELSE nIn
    /\ messages' = IF m.tc THEN Flush(messages, closure[s].input, closure[s].output)
                   ELSE messages
    /\ decayTimers' = IF m.tc THEN decayTimers + 1 ELSE decayTimers
    /\ emotion' = EmotionEffect(currentOutput, currentOutput', emotion)
    /\ IF m.audio # 0
       THEN /\ isSpeaking' = TRUE
            /\ nextStartTime' = StartAt(nextStartTime, outputClock)
            /\ decoding' = Append(decoding,
                                  [arr |-> nAudio + 1, dur |-> m.audio, intr |-> m.intr])
            /\ nAudio' = nAudio + 1
            /\ UNCHANGED << sources, stoppedEnds, resetSince >>
       ELSE IF m.intr
       THEN /\ sources' = {}
            /\ stoppedEnds' = stoppedEnds + Cardinality(sources)
            /\ nextStartTime' = CursorAfterInterrupt(nextStartTime)
            /\ isSpeaking' = FALSE
            /\ resetSince' = "interrupted"
            /\ UNCHANGED << decoding, nAudio >>
       ELSE UNCHANGED << isSpeaking, nextStartTime, decoding, nAudio, sources,
                         stoppedEnds, resetSince >>
    /\ stopsInRow' = 0
    /\ lastHandled' =
           IF HandlersRun(m) = {} THEN "ignored"
           ELSE IF m.intr /\ m.audio = 0
           THEN (IF sources = {} /\ ~isSpeaking THEN "idle-interrupt" ELSE "interrupt")
           ELSE "other"
    /\ traffic' = traffic
    /\ UNCHANGED << capture, lastFrame, lastTurn >>
    /\ UNCHANGED << status, textValue, sessionRef, nSessions, chan, closure, lastBuf,
                    outputClock, nSends >>

\* A message of session s with no serverContent, or with a serverContent that
\* has none of the fields the handler reads: every condition is false.  When
\* it has a modelTurn without parts, line 166 throws inside the async handler,
\* which rejects the promise nobody awaits.
OnMalformedEndsSession(s) ==
    /\ chan[s] = "open"
    /\ chan' = [chan EXCEPT ![s] = "failed"]
    /\ status' = "ERROR"
    /\ stopsInRow' = 0
    /\ lastHandled' = "ignored"
    /\ UNCHANGED << messages, currentInput, currentOutput, textValue, isSpeaking,
                    emotion, sessionRef, nextStartTime, sources, nSessions, closure,
                    decoding, lastBuf, stoppedEnds, decayTimers, outputClock, nAudio,
                    nIn, nSends, nOut, resetSince, traffic, capture, lastFrame,
                    lastTurn >>

OnMalformed(s) ==
    /\ chan[s] = "open"
    /\ stopsInRow' = 0
    /\ lastHandled' = "ignored"
    /\ UNCHANGED << status, messages, currentInput, currentOutput, textValue,
                    isSpeaking, emotion, sessionRef, nextStartTime, sources, nSessions,
                    chan, closure, decoding, lastBuf, stoppedEnds, decayTimers,
                    outputClock, nAudio, nIn, nSends, nOut, resetSince, traffic,
                    capture, lastFrame, lastTurn >>

\* When the output engine starts a buffer given to start(when) at clock time
\* now: at once if when is in the past.
PlayStart(when, now) == Max(when, now)

Remove(seq, k) == SubSeq(seq, 1, k - 1) \o SubSeq(seq, k + 1, Len(seq))

\* The suspended calls that may resume next: decodeAudioData produces its
\* buffers asynchronously, so any of them.
Resumable(k) == k \in 1..Len(decoding)

\* decodeAudioData resolves for the k-th suspended call: lines 178-198.  The
\* buffer is started at the cursor, and a message that also carried
\* `interrupted` then stops and clears every source, the new one included.
DecodeDone(k) ==
    /\ Resumable(k)
    /\ LET p == decoding[k]
           buf == [n |-> lastBuf.n + 1, arr |-> p.arr, when |-> nextStartTime,
                   dur |-> p.dur, after |-> resetSince]
           src == [arr |-> p.arr, playEnd |-> PlayStart(nextStartTime, outputClock) + p.dur]
       IN /\ lastBuf' = buf
          /\ decoding' = Remove(decoding, k)
          /\ IF p.intr
             THEN /\ sources' = {}
                  /\ stoppedEnds' = stoppedEnds + Cardinality(sources) + 1
                  /\ nextStartTime' =
                         CursorAfterInterrupt(AdvanceCursor(nextStartTime, p.dur))
                  /\ isSpeaking' = FALSE
                  /\ resetSince' = "interrupted"
                  /\ lastHandled' = "interrupt"
             ELSE /\ sources' = sources \cup {src}
                  /\ nextStartTime' = AdvanceCursor(nextStartTime, p.dur)
                  /\ resetSince' = NoReset
                  /\ lastHandled' = "other"
                  /\ UNCHANGED << stoppedEnds, isSpeaking >>
    /\ stopsInRow' = 0
    /\ traffic' = traffic
    /\ UNCHANGED << capture, lastFrame, lastTurn >>
    /\ UNCHANGED << status, messages, currentInput, currentOutput, textValue, emotion,
                    sessionRef, nSessions, chan, closure, decayTimers, outputClock,
                    nAudio, nIn, nSends, nOut >>

\* decode or decodeAudioData throws for the k-th suspended call: the rest of
\* the handler is skipped.
DecodeFail(k) ==
    /\ Resumable(k)
    /\ decoding' = Remove(decoding, k)
    /\ stopsInRow' = 0
    /\ lastHandled' = "other"
    /\ traffic' = traffic
    /\ UNCHANGED << capture, lastFrame, lastTurn >>
    /\ UNCHANGED << status, messages, currentInput, currentOutput, textValue,
                    isSpeaking, emotion, sessionRef, nextStartTime, sources, nSessions,
                    chan, closure, lastBuf, stoppedEnds, decayTimers, outputClock, nAudio,
                    nIn, nSends, nOut, resetSince >>

\* The 'ended' listener of lines 181-184, for a source that played to its end.
\* The clock saturates at MaxClock, which stands for every later time.
SourceEnded(src) ==
    /\ src \in sources
    /\ outputClock >= Min(src.playEnd, MaxClock)
    /\ sources' = sources \ {src}
    /\ isSpeaking' = IF sources' = {} THEN FALSE ELSE isSpeaking
    /\ stopsInRow' = 0
    /\ lastHandled' = "other"
    /\ traffic' = traffic
    /\ UNCHANGED << capture, lastFrame, lastTurn >>
    /\ UNCHANGED << status, messages, currentInput, currentOutput, textValue, emotion,
                    sessionRef, nextStartTime, nSessions, chan, closure, decoding,
                    lastBuf, stoppedEnds, decayTimers, outputClock, nAudio, nIn, nSends, nOut,
                    resetSince >>

\* The same listener for a source that stop() ended: it is no longer in the set.
StoppedSourceEnded ==
    /\ stoppedEnds > 0
    /\ stoppedEnds' = stoppedEnds - 1
    /\ isSpeaking' = IF sources = {} THEN FALSE ELSE isSpeaking
    /\ stopsInRow' = 0
    /\ lastHandled' = "other"
    /\ traffic' = traffic
    /\ UNCHANGED << capture, lastFrame, lastTurn >>
    /\ UNCHANGED << status, messages, currentInput, currentOutput, textValue, emotion,
                    sessionRef, nextStartTime, sources, nSessions, chan, closure,
                    decoding, lastBuf, decayTimers, outputClock, nAudio, nIn, nSends, nOut,
                    resetSince >>

\* The timer of line 163 fires.
DecayFire ==
    /\ decayTimers > 0
    /\ decayTimers' = decayTimers - 1
    /\ emotion' = "default"
    /\ stopsInRow' = 0
    /\ lastHandled' = "other"
    /\ traffic' = traffic
    /\ UNCHANGED << capture, lastFrame, lastTurn >>
    /\ UNCHANGED << status, messages, currentInput, currentOutput, textValue,
                    isSpeaking, sessionRef, nextStartTime, sources, nSessions, chan,
                    closure, decoding, lastBuf, stoppedEnds, outputClock, nAudio, nIn,
                    nSends, nOut, resetSince >>

\* output.currentTime advances (the context exists from the first initAudio).
Tick ==
    /\ nSessions > 0
    /\ traffic = "audio"
    /\ outputClock < MaxClock
    /\ outputClock' = outputClock + 1
    /\ stopsInRow' = 0
    /\ lastHandled' = "other"
    /\ traffic' = traffic
    /\ UNCHANGED << capture, lastFrame, lastTurn >>
    /\ UNCHANGED << status, messages, currentInput, currentOutput, textValue,
                    isSpeaking, emotion, sessionRef, nextStartTime, sources, nSessions,
                    chan, closure, decoding, lastBuf, stoppedEnds, decayTimers, nAudio,
                    nIn, nSends, nOut, resetSince >>

----------------------------------------------------------------------------
(* Capture: scriptProcessor.onaudioprocess, lines 126-141 *)

\* Microphone samples are the fractions k / SampleDen, k in -SampleDen..SampleDen.
SampleDen == 3
Samples == (0 - SampleDen)..SampleDen

\* Storing a number in an Int16Array (ToInt16): the fraction is dropped
\* (towards zero) and the integer wraps modulo 2^16.
ToInt16(num, den) ==
    LET magnitude == (IF num >= 0 THEN num ELSE 0 - num) \div den
        int == IF num >= 0 THEN magnitude ELSE 0 - magnitude
        int16bit == int % 65536
    IN IF int16bit >= 32768 THEN int16bit - 65536 ELSE int16bit

\* Line 131 for the sample k / SampleDen.
FloatToInt16(k) == ToInt16(k * 32768, SampleDen)

\* The pipeline that session p's onopen connected gets a frame (of one sample
\* here): it converts it and, if a session is stored, sends it to that session
\* (lines 138-140).  Nothing ever disconnects a pipeline.
CaptureFrame(p, k) ==
    /\ traffic = "capture"
    /\ p \in capture
    /\ lastFrame' = [n |-> Min(lastFrame.n + 1, MaxFrames), pipe |-> p, sample |-> k,
                     int16 |-> FloatToInt16(k), to |-> sessionRef]
    /\ stopsInRow' = 0
    /\ lastHandled' = "other"
    /\ UNCHANGED << status, messages, currentInput, currentOutput, textValue,
                    isSpeaking, emotion, sessionRef, nextStartTime, sources, nSessions,
                    chan, closure, decoding, lastBuf, stoppedEnds, decayTimers,
                    outputClock, nAudio, nIn, nSends, nOut, resetSince, traffic,
                    capture, lastTurn >>

----------------------------------------------------------------------------
(* Text input: lines 227-243 and 301-306 *)

\* String.prototype.trim() leaves nothing.
RECURSIVE IsBlank(_)
IsBlank(t) == t = "" \/ (CharAt(t, 1) = " " /\ IsBlank(Tail(t)))

\* onChange of the text box, rendered while CONNECTED (line 299).  Typing is
\* explored while a send is still to come, and a run with audio messages
\* types no whitespace-only text.
TypeText(t) ==
    /\ status = "CONNECTED"
    /\ t # textValue
    /\ nSends < MaxSends
    /\ traffic = "audio" => (t = "" \/ ~IsBlank(t))
    /\ textValue' = t
    /\ stopsInRow' = 0
    /\ lastHandled' = "other"
    /\ traffic' = traffic
    /\ UNCHANGED << capture, lastFrame, lastTurn >>
    /\ UNCHANGED << status, messages, currentInput, currentOutput, isSpeaking, emotion,
                    sessionRef, nextStartTime, sources, nSessions, chan, closure,
                    decoding, lastBuf, stoppedEnds, decayTimers, outputClock, nAudio,
                    nIn, nSends, nOut, resetSince >>

\* Line 241.
UserEntryAsModel(text) == [role |-> "model", text |-> text]

UserEntry(text) == [role |-> "user", text |-> text]

\* handleSendText, from the send button or Enter in the text box.  The turn is
\* transmitted (line 237) after the sources are stopped and the set cleared
\* (lines 230-235) and before the updater of line 241 runs.
HandleSendText ==
    /\ status = "CONNECTED"
    /\ ~IsBlank(textValue)
    /\ sessionRef # 0
    /\ Len(messages) < MaxLog
    /\ nSends < MaxSends
    /\ nSends' = nSends + 1
    /\ sources' = {}
    /\ stoppedEnds' = stoppedEnds + Cardinality(sources)
    /\ nextStartTime' = CursorAfterInterrupt(nextStartTime)
    /\ isSpeaking' = FALSE
    /\ resetSince' = "text"
    /\ lastTurn' = [text |-> textValue, active |-> Cardinality(sources'),
                    logLen |-> Len(messages)]
    /\ messages' = Append(messages, UserEntry(textValue))
    /\ textValue' = ""
    /\ stopsInRow' = 0
    /\ lastHandled' = "other"
    /\ traffic' = traffic
    /\ UNCHANGED << capture, lastFrame >>
    /\ UNCHANGED << status, currentInput, currentOutput, emotion, sessionRef, nSessions,
                    chan, closure, decoding, lastBuf, decayTimers, outputClock, nAudio,
                    nIn, nOut >>

----------------------------------------------------------------------------
(* Specifications *)

Next ==
    \/ StartSession
    \/ \E s \in Sessions : StartFailed(s)
    \/ \E s \in Sessions : OnOpen(s)
    \/ \E s \in Sessions : OnError(s)
    \/ \E s \in Sessions : OnClose(s)
    \/ ClickStop
    \/ \E s \in Sessions : \E m \in Msgs : OnMessage(s, m)
    \/ \E s \in Sessions : OnMalformed(s)
    \/ \E k \in 1..MaxBuffers : DecodeDone(k)
    \/ \E k \in 1..MaxBuffers : DecodeFail(k)
    \/ \E src \in sources : SourceEnded(src)
    \/ StoppedSourceEnded
    \/ DecayFire
    \/ Tick
    \/ \E p \in Sessions : \E k \in Samples : CaptureFrame(p, k)
    \/ \E t \in TextInputs : TypeText(t)
    \/ HandleSendText

Spec == Init /\ [][Next]_vars

\* stop() as an operation callable in every state, not only through the
\* "End Session" button.
NextApi ==
    \/ Next
    \/ StopSession

SpecApi == Init /\ [][NextApi]_vars

\* The classifier on its own: currentOutput holds a text and the effect of
\* lines 83-90 runs on it.
InitClassify ==
    /\ status = "IDLE"
    /\ messages = << >>
    /\ currentInput = ""
    /\ currentOutput \in ClassifyTexts
    /\ textValue = ""
    /\ isSpeaking = FALSE
    /\ emotion = "default"
    /\ sessionRef = 0
    /\ nextStartTime = 0
    /\ sources = {}
    /\ nSessions = 0
    /\ chan = [s \in Sessions |-> "none"]
    /\ closure = [s \in Sessions |-> [input |-> "", output |-> ""]]
    /\ decoding = << >>
    /\ lastBuf = NoBuf
    /\ stoppedEnds = 0
    /\ decayTimers = 0
    /\ outputClock = 0
    /\ nAudio = 0
    /\ nIn = 0
    /\ nSends = 0
    /\ nOut = 0
    /\ resetSince = NoReset
    /\ stopsInRow = 0
    /\ traffic = "text"
    /\ capture = {}
    /\ lastFrame = NoFrame
    /\ lastTurn = NoTurn
    /\ lastHandled = "other"

Classify ==
    /\ emotion' = EmotionEffect("", currentOutput, emotion)
    /\ UNCHANGED << status, messages, currentInput, currentOutput, textValue,
                    isSpeaking, sessionRef, nextStartTime, sources, nSessions, chan,
                    closure, decoding, lastBuf, stoppedEnds, decayTimers, outputClock,
                    nAudio, nIn, nSends, nOut, resetSince, stopsInRow, traffic,
                    capture, lastFrame, lastTurn, lastHandled >>

SpecClassify == InitClassify /\ [][Classify]_vars

----------------------------------------------------------------------------
(* Claims *)

Sentence == "I understand, that sounds difficult"

\* What the spec says a turn-complete appends for input text i and output text o.
TurnEntries(i, o) ==
    (IF i # "" THEN << [role |-> "user", text |-> i] >> ELSE << >>)
        \o (IF o # "" THEN << [role |-> "model", text |-> o] >> ELSE << >>)

\* A message that carries turn-complete and nothing else.
IsTurnComplete(m) == m.tc /\ m.out = "" /\ m.inp = "" /\ m.audio = 0 /\ ~m.intr

\* C1: a turn-complete appends to the Message log exactly the user entry with
\* the input fragments received since the previous turn-complete, concatenated
\* in arrival order, then the agent entry with the concatenated output
\* fragments, each only if non-empty, and nothing else.
C1_TurnFlush ==
    [][\A s \in Sessions : \A m \in Msgs :
          (IsTurnComplete(m) /\ OnMessage(s, m))
              => messages' = messages \o TurnEntries(currentInput, currentOutput)]_vars

\* A buffer was given to source.start in this step.
Scheduled == lastBuf'.n = lastBuf.n + 1

\* C2 as claimed: within one connected session every buffer is given a start
\* time at or after the start time plus the duration of the buffer scheduled
\* before it.
C2_NonOverlap ==
    [][(nSessions = 1 /\ Scheduled /\ lastBuf.n >= 1)
          => lastBuf'.when >= lastBuf.when + lastBuf.dur]_vars

\* C2 as amended: the same, for consecutive buffers between whose scheduling
\* no interrupted signal and no text send reset the cursor.
C2_NonOverlapNoReset ==
    [][(Scheduled /\ lastBuf.n >= 1 /\ lastBuf'.after = NoReset)
          => lastBuf'.when >= lastBuf.when + lastBuf.dur]_vars

C2_Witness == lastBuf.n >= 2 /\ lastBuf.after = NoReset /\ lastBuf.when > 0

\* C3: the active set is empty if and only if isSpeaking is false.
C3_SpeakingIffActive == (sources = {}) <=> ~isSpeaking

\* The handler of a message that carries `interrupted` completes in this step.
InterruptHandled == lastHandled' \in {"interrupt", "idle-interrupt"}

\* C4: handling an interrupted signal leaves the active set empty and the
\* cursor at 0, and the first buffer scheduled after it (its decode pending
\* across the interruption or not) starts playing at the current output clock
\* time: it is not queued behind the cursor.
C4_InterruptClears ==
    /\ [][InterruptHandled => sources' = {} /\ nextStartTime' = 0]_vars
    /\ [][(Scheduled /\ lastBuf'.after = "interrupted")
             => PlayStart(lastBuf'.when, outputClock) = outputClock]_vars

C4_Witness == lastBuf.after = "interrupted" /\ lastBuf.n >= 2 /\ sources # {}

\* C5: in a fresh session the output fragment Sentence followed by
\* turn-complete leaves EmotionState at empathy and adds exactly one agent
\* entry with that text to the Message log.  (The audio fragment of the
\* scenario touches neither.)
C5_EndToEnd ==
    [][\A s \in Sessions : \A m \in Msgs :
          (/\ IsTurnComplete(m) /\ OnMessage(s, m)
           /\ nSessions = 1 /\ messages = << >> /\ decayTimers = 0
           /\ currentInput = "" /\ currentOutput = Sentence)
              => /\ emotion = "empathy"
                 /\ messages' = << [role |-> "model", text |-> Sentence] >>]_vars

\* The precedence order of the spec, highest first, and the category keywords.
Precedence ==
    << "surprise", "frustration", "boredom", "joy", "empathy", "calm", "curiosity" >>

KeywordsOf(e) ==
    CASE e = "surprise" -> SurpriseWords
      [] e = "frustration" -> FrustrationWords
      [] e = "boredom" -> BoredomWords
      [] e = "joy" -> JoyWords
      [] e = "empathy" -> EmpathyWords
      [] e = "calm" -> CalmWords
      [] e = "curiosity" -> CuriosityWords

\* The categories one of whose keywords occurs in t as a whole word.
Matching(t) ==
    {i \in 1..Len(Precedence) : RegexTest(KeywordsOf(Precedence[i]), toLowerCase(t))}

FirstMatch(t) ==
    IF Matching(t) = {} THEN "default"
    ELSE Precedence[CHOOSE i \in Matching(t) : \A j \in Matching(t) : i <= j]

\* C6: the classifier returns the first category, in the order of Precedence,
\* one of whose keywords the text contains, and neutral ('default') when it
\* contains none; so a text with a joy and a calm keyword and none of a higher
\* category is joy.  The emotion the effect sets is that result.
C6_FirstMatchWins ==
    /\ detectEmotion(currentOutput) = FirstMatch(currentOutput)
    /\ emotion # "default" => emotion = FirstMatch(currentOutput)
    /\ (Matching(currentOutput) = {4, 6}) => detectEmotion(currentOutput) = "joy"
    /\ (Matching(currentOutput) = {}) => detectEmotion(currentOutput) = "default"

C6_Witness == currentOutput = "relax happy" /\ emotion = "joy"

\* C7: once nothing is left to decode or to play (every scheduled buffer has
\* ended and every ended event is delivered), isSpeaking is false: without a
\* further audio fragment nothing else would ever clear it.
C7_QuietWhenPlayed ==
    (decoding = << >> /\ sources = {} /\ stoppedEnds = 0) => ~isSpeaking

\* C8: when stop() returns the active set is empty and the cursor is 0.
C8_StopClearsPlayback == stopsInRow >= 1 => (sources = {} /\ nextStartTime = 0)

\* C9: after stop(), and after a second stop() directly following it,
\* ConnectionState is idle, and the second call changes nothing.
C9_StopTwice ==
    /\ [](stopsInRow >= 1 => status = "IDLE")
    /\ [][(stopsInRow >= 1 /\ StopSession)
             => UNCHANGED << status, messages, currentInput, currentOutput, textValue,
                             isSpeaking, emotion, sessionRef, nextStartTime, sources,
                             nSessions, chan, closure, decoding, lastBuf, stoppedEnds,
                             decayTimers, outputClock, nAudio, nIn, nSends, nOut,
                             resetSince, capture, lastFrame, lastTurn >>]_vars

C9_Witness == stopsInRow = 2

\* C10: ConnectionState leaves error only for connecting, the transition of
\* start().
C10_ErrorUntilStart ==
    [][status = "ERROR" => status' \in {"ERROR", "CONNECTING"}]_vars

\* A source of the active set is playing or waits for its start time.
Playing == \E src \in sources : src.playEnd > outputClock

\* A capture frame is handed to a session in this step.
FrameSent == lastFrame' # lastFrame /\ lastFrame'.to # 0

\* C11: while ConnectionState is error no capture frame is sent, no buffer is
\* playing or waiting to play, and none is scheduled.
C11_ErrorSilent ==
    /\ [](status = "ERROR" => ~Playing)
    /\ [][status = "ERROR" => (~FrameSent /\ ~Scheduled)]_vars

StatusSteps ==
    { << "IDLE", "CONNECTING" >>, << "CONNECTING", "CONNECTED" >>,
      << "CONNECTED", "IDLE" >>, << "CONNECTED", "ERROR" >>,
      << "CONNECTING", "ERROR" >>, << "ERROR", "CONNECTING" >> }

\* C12: every change of ConnectionState is one of StatusSteps (so connected is
\* entered only from connecting), and the close callback of a session that
\* is not the latest one changes nothing of it.
C12_Transitions ==
    /\ [][status' # status => << status, status' >> \in StatusSteps]_vars
    /\ [][\A s \in Sessions : (s < nSessions /\ OnClose(s)) => status' = status]_vars

\* C13: a text turn is transmitted only for non-blank text on a stored
\* session; when it is transmitted every source has been stopped and the set
\* cleared, the log is not yet appended to, and the handler leaves the cursor
\* at 0, isSpeaking false, the log longer by exactly the {user, text} entry
\* and the transcription buffers as they were.
C13_SendText ==
    [][(nSends' = nSends + 1)
          => /\ ~IsBlank(textValue) /\ sessionRef # 0
             /\ lastTurn' = [text |-> textValue, active |-> 0, logLen |-> Len(messages)]
             /\ sources' = {} /\ nextStartTime' = 0 /\ ~isSpeaking'
             /\ messages' = Append(messages, [role |-> "user", text |-> textValue])
             /\ currentInput' = currentInput /\ currentOutput' = currentOutput]_vars

C13_Witness ==
    /\ nSends = 1 /\ resetSince = "text" /\ stoppedEnds > 0
    /\ lastTurn.text = "yo" /\ Len(messages) = 1

\* C14: handling one inbound message runs at most one of the five handlers.
C14_OneHandler ==
    [][\A s \in Sessions : \A m \in Msgs :
          OnMessage(s, m) => Cardinality(HandlersRun(m)) <= 1]_vars

\* C15: at most one decay timer is pending, and a decay timer does not reset
\* the emotion that the classification of the turn now accumulating has set.
C15_NoStaleDecay ==
    /\ [](decayTimers <= 1)
    /\ [][(/\ decayTimers' < decayTimers
           /\ currentOutput # ""
           /\ Detected[currentOutput] # "default"
           /\ emotion = Detected[currentOutput]) => emotion' = emotion]_vars

\* num / den rounded to the nearest integer (halves away from zero).
RoundDiv(num, den) ==
    LET magnitude == (2 * (IF num >= 0 THEN num ELSE 0 - num) + den) \div (2 * den)
    IN IF num >= 0 THEN magnitude ELSE 0 - magnitude

Clamp16(x) == Max(0 - 32768, Min(32767, x))

\* C16: the int16 value of a captured sample f is round(f * 32768) clamped to
\* [-32768, 32767].
C16_RoundAndClamp ==
    lastFrame.n > 0
        => lastFrame.int16 = Clamp16(RoundDiv(lastFrame.sample * 32768, SampleDen))

\* The sessions whose channel is open.
Alive == {s \in Sessions : chan[s] = "open"}

\* C17: while connected exactly one session is alive and it is the stored
\* one; while idle no session is alive.
C17_OneSession ==
    /\ status = "CONNECTED" => Alive = {sessionRef}
    /\ status = "IDLE" => Alive = {}

\* C18: a buffer whose fragment arrived before the fragment of the buffer
\* started just before it (no interrupted signal or text send in between)
\* gets a start time no later than that buffer's.
C18_ArrivalOrder ==
    [][(Scheduled /\ lastBuf.n >= 1 /\ lastBuf'.after = NoReset
            /\ lastBuf'.arr < lastBuf.arr)
          => lastBuf'.when <= lastBuf.when]_vars

\* C19: a frame is sent only by the pipeline of the session it is sent to:
\* the pipeline of a stopped session sends nothing, also after a later start.
C19_OnePipeline ==
    [][FrameSent => lastFrame'.pipe = lastFrame'.to]_vars

\* C20: a failed decode adds nothing to the active set and leaves the cursor
\* alone, and isSpeaking is not left true when nothing is playing or pending.
C20_DecodeFailureDrops ==
    [][(\E k \in 1..Len(decoding) : DecodeFail(k))
          => /\ sources' = sources
             /\ nextStartTime' = nextStartTime
             /\ (sources' = {} /\ decoding' = << >> /\ stoppedEnds' = 0) => ~isSpeaking']_vars

\* C21: a message that carries none of the recognised kinds changes neither
\* ConnectionState, the Message log, the two buffers, the active set, the
\* cursor, isSpeaking nor EmotionState, and leaves every channel as it was, so
\* the session goes on handling messages.
C21_UnknownIgnored ==
    [][lastHandled' = "ignored"
          => UNCHANGED << status, messages, currentInput, currentOutput, sources,
                          nextStartTime, isSpeaking, emotion, chan, sessionRef >>]_vars

C21_Witness ==
    /\ lastHandled = "ignored" /\ status = "CONNECTED"
    /\ sources # {} /\ isSpeaking /\ nextStartTime > 0

\* C22: EmotionState becomes neutral only when a decay timer fires or in
\* stop(); it becomes a non-neutral emotion only as the classification of the
\* changed output buffer; and whenever the output buffer grows it is the
\* classification of the grown text if that is non-neutral and stays as it
\* was if that is neutral.
C22_NeutralNeverOverwrites ==
    [][/\ (emotion' # emotion /\ emotion' = "default")
              => (decayTimers' < decayTimers \/ stopsInRow' >= 1)
       /\ (emotion' # emotion /\ emotion' # "default")
              => (currentOutput' # currentOutput
                      /\ emotion' = Detected[currentOutput'])
       /\ (Len(currentOutput') > Len(currentOutput))
              => emotion' = (IF Detected[currentOutput'] # "default"
                             THEN Detected[currentOutput'] ELSE emotion)]_vars

C22_Witness ==
    /\ emotion = "frustration" /\ currentOutput = "Mhm "
    /\ detectEmotion(currentOutput) = "default"

\* C23: in every step the Message log before it is a prefix of the log after it.
C23_AppendOnly ==
    [][/\ Len(messages') >= Len(messages)
       /\ SubSeq(messages', 1, Len(messages)) = messages]_vars

C23_Witness ==
    /\ Len(messages) = 2 /\ nSessions = 2 /\ nSends = 1
    /\ messages[1].role = "user" /\ messages[2].role = "model"

\* The handler of a message that carries `interrupted` and no audio ran in
\* this step, with no source in the active set and isSpeaking false.
IdleInterrupt == lastHandled' = "idle-interrupt"

\* The part of the state that C24 speaks of, without the cursor.
InterruptFrame ==
    << sources, isSpeaking, messages, currentInput, currentOutput >>

\* C24 as claimed: an interrupted signal handled when no audio is active
\* leaves the active set, the cursor, isSpeaking and the transcript state as
\* they were.
C24_InterruptNoOp ==
    [][IdleInterrupt
          => (UNCHANGED InterruptFrame /\ nextStartTime' = nextStartTime)]_vars

\* C24 as amended: it leaves the active set, isSpeaking and the transcript
\* state as they were and the cursor at 0, which changes the cursor when
\* buffers that have ended left it behind; handled once more it changes none
\* of them.
C24_InterruptNoOpButCursor ==
    [][IdleInterrupt
          => /\ UNCHANGED InterruptFrame
             /\ nextStartTime' = 0
             /\ lastHandled = "idle-interrupt" => nextStartTime' = nextStartTime]_vars

C24_Witness ==
    /\ lastHandled = "idle-interrupt" /\ lastBuf.n >= 1 /\ nextStartTime = 0
    /\ sources = {} /\ ~isSpeaking

====
